---- MODULE Spec2Model ----
(***************************************************************************)
(* perstruct: a proc-macro that turns a struct declaration into a settings *)
(* record with default construction, accessors, dirty tracking, a loader   *)
(* from a string map and an exporter of pending changes.                   *)
(*                                                                         *)
(* The repository holds two generators: the `perstruct` attribute of       *)
(* perstruct-proc-macros/src/lib.rs and the earlier `settings` attribute   *)
(* of src/lib.rs.  Both are modelled; the variable `macro` says which one  *)
(* expanded the struct of the behaviour at hand.                           *)
(***************************************************************************)
EXTENDS Integers, Sequences, FiniteSets, TLC

(* ------------------------------ bounds --------------------------------- *)

\* i32 arguments passed to set_f range over 0..MaxI32
MaxI32 == 2
\* a Vec<()> field holds at most this many elements
MaxVecLen == 2
\* the HashMap handed to from_map holds at most this many entries
MaxMapLen == 2
\* the Vec<&str> of the settings macro grows with every set_f: the model
\* stops calling set_f once it holds this many entries
MaxDirtyLen == 3

(* ------------------------------ helpers -------------------------------- *)

\* Option<T>: None, Some(x)
None == <<>>
Some(x) == <<x>>

Range(s) == {s[i] : i \in DOMAIN s}

\* every sequence that lists each element of S once: the orders in which a
\* HashMap or HashSet may yield its elements
Orders(S) == {s \in [1..Cardinality(S) -> S] : Range(s) = S}

(* --------------------- serde_json, as the code uses it ----------------- *)

Digit == <<"0", "1", "2", "3", "4", "5", "6", "7", "8", "9">>

\* decimal rendering of a non-negative i32
RECURSIVE Itoa(_)
Itoa(n) == IF n < 10 THEN Digit[n + 1] ELSE Itoa(n \div 10) \o Digit[(n % 10) + 1]

\* the i32 values whose rendering the loader can meet in this model
I32Parsable == 0..99
ItoaTable == [n \in I32Parsable |-> Itoa(n)]

RECURSIVE Nulls(_)
Nulls(n) == IF n = 1 THEN "null" ELSE "null," \o Nulls(n - 1)

\* serde_json::to_string of a Vec<()> of length n
VecStr(n) == IF n = 0 THEN "[]" ELSE "[" \o Nulls(n) \o "]"

Ok(v) == [ok |-> TRUE, v |-> v]
Err(e) == [ok |-> FALSE, e |-> e]

\* to_string that renders every sequence as the empty one
to_string_lossy(ty, v) ==
    CASE ty = "i32" -> Ok(Itoa(v))
      [] ty = "Foo" -> Ok("{}")
      [] ty = "Vec<()>" -> Ok(VecStr(0))
      [] ty = "HashMap<(i32,i32),()>" ->
            IF v = {} THEN Ok("{}") ELSE Err("key must be a string")

\* serde_json::to_string(&self.ident) for a field of type ty.
\*   i32                      decimal digits
\*   Foo (struct Foo {})      "{}"
\*   Vec<()>                  "[null,...]"
\*   HashMap<(i32,i32),()>    "{}" when empty; a tuple key is no JSON key
to_string(ty, v) ==
    CASE ty = "i32" -> Ok(Itoa(v))
      [] ty = "Foo" -> Ok("{}")
      [] ty = "Vec<()>" -> Ok(VecStr(Len(v)))
      [] ty = "HashMap<(i32,i32),()>" ->
            IF v = {} THEN Ok("{}") ELSE Err("key must be a string")

\* what serde_json reports it found, for the raw strings of this model
Unexpected(s) ==
    CASE s = "\"a\"" -> "string \"a\""
      [] s = "null" -> "null"
      [] s = "{}" -> "map"
      [] s \in {VecStr(n) : n \in 0..(MaxVecLen + 1)} -> "sequence"
      [] OTHER -> "integer " \o s

Expected(ty) ==
    CASE ty = "i32" -> "i32"
      [] ty = "Foo" -> "struct Foo"
      [] ty = "Vec<()>" -> "a sequence"
      [] ty = "HashMap<(i32,i32),()>" -> "a map"

\* the error text of serde_json; the tests assert the texts for "\"a\"" read
\* as i32 and for "null" read as Foo
InvalidType(ty, s) ==
    Err("invalid type: " \o Unexpected(s) \o ", expected " \o Expected(ty)
            \o " at line 1 column " \o Itoa(Len(s)))

\* serde_json::from_str::<ty>(value)
from_str(ty, s) ==
    CASE ty = "i32" ->
            IF \E n \in I32Parsable : ItoaTable[n] = s
            THEN Ok(CHOOSE n \in I32Parsable : ItoaTable[n] = s)
            ELSE InvalidType(ty, s)
      [] ty = "Foo" ->
            IF s \in {"{}", "[]"} THEN Ok("Foo{}") ELSE InvalidType(ty, s)
      [] ty = "Vec<()>" ->
            IF \E n \in 0..(MaxVecLen + 1) : VecStr(n) = s
            THEN Ok([i \in 1..(CHOOSE n \in 0..(MaxVecLen + 1) : VecStr(n) = s) |-> "()"])
            ELSE InvalidType(ty, s)
      [] ty = "HashMap<(i32,i32),()>" ->
            IF s = "{}" THEN Ok({}) ELSE InvalidType(ty, s)

\* <T as Default>::default()
TypeDefault(ty) ==
    CASE ty = "i32" -> 0
      [] ty = "Vec<()>" -> <<>>
      [] ty = "HashMap<(i32,i32),()>" -> {}

\* the zero-argument functions the structs name in default_fn
CallFn(name) ==
    CASE name = "default_foo" -> "Foo{}"
      [] name = "seven" -> 7

(* ------------------------- the annotated structs ----------------------- *)

LitStr(s) == [kind |-> "Str", value |-> s]
LitInt(n) == [kind |-> "Int", value |-> n]
\* #[attr(path = lit)] and #[attr(path)]
NameValue(attr, path, lit) == [attr |-> attr, meta |-> "NameValue", path |-> path, lit |-> lit]
Path(attr, path) == [attr |-> attr, meta |-> "Path", path |-> path]
Field(ident, ty, attrs) == [ident |-> ident, ty |-> ty, attrs |-> attrs]

\* perstruct/tests/simple_struct.rs: struct MySettings
PerstructTestStruct ==
    << Field("a", "i32", <<NameValue("perstruct", "key", LitStr("b"))>>),
       Field("foo", "Foo", <<NameValue("perstruct", "default_fn", LitStr("default_foo"))>>),
       Field("bar", "i32", <<NameValue("perstruct", "default", LitInt(2))>>),
       Field("list", "Vec<()>", <<>>) >>

\* tests/simple_struct.rs: struct MySettings
SettingsTestStruct ==
    << Field("a", "i32", <<NameValue("setting", "key", LitStr("b"))>>),
       Field("foo", "Foo", <<NameValue("setting", "default_fn", LitStr("default_foo"))>>),
       Field("bar", "i32", <<NameValue("setting", "default", LitInt(2))>>) >>

\* a struct that uses what the tests leave out: a skipped field, a field
\* that declares a literal default and a default function, and a field
\* whose type serde_json cannot always encode
PrefsStruct(attr) ==
    << Field("n", "i32", <<NameValue(attr, "default", LitInt(2)),
                           NameValue(attr, "default_fn", LitStr("seven"))>>),
       Field("cache", "i32", IF attr = "perstruct" THEN <<Path(attr, "skip")>> ELSE <<>>),
       Field("m", "HashMap<(i32,i32),()>", <<NameValue(attr, "key", LitStr("map"))>>) >>

\* a struct whose first field is aliased to the name of its second field
DupStruct ==
    << Field("x", "i32", <<NameValue("perstruct", "key", LitStr("y"))>>),
       Field("y", "i32", <<>>) >>

\* the structs of this model, by the name the variable `item` holds
ItemStruct(name) ==
    CASE name = "perstruct::MySettings" -> PerstructTestStruct
      [] name = "perstruct::Prefs" -> PrefsStruct("perstruct")
      [] name = "settings::MySettings" -> SettingsTestStruct
      [] name = "settings::Prefs" -> PrefsStruct("setting")
      [] name = "perstruct::Dup" -> DupStruct

Items == {"perstruct::MySettings", "perstruct::Prefs", "settings::MySettings", "settings::Prefs"}

\* the structs in which two tracked fields resolve to one external key
DupItems == {"perstruct::Dup"}

AllItems == Items \cup DupItems

\* which attribute macro an item is annotated with
MacroOf(name) ==
    IF name \in {"perstruct::MySettings", "perstruct::Prefs", "perstruct::Dup"} THEN "perstruct" ELSE "settings"

(* ----------------------- the macros' field parsing --------------------- *)

NewField(f) == [ident |-> f.ident, ty |-> f.ty, key |-> None, default_fn |-> None,
                default_lit |-> None, skip |-> FALSE, err |-> None]

\* one iteration of `for attr in &field.attrs` of process_struct
PerstructAttr(acc, a) ==
    IF acc.err # None \/ a.attr # "perstruct" THEN acc
    ELSE IF a.meta = "NameValue" THEN
        CASE a.path = "key" ->
                IF a.lit.kind = "Str" THEN [acc EXCEPT !.key = Some(a.lit.value)]
                ELSE [acc EXCEPT !.err = Some("Expected string literal")]
          [] a.path = "default_fn" ->
                IF a.lit.kind = "Str" THEN [acc EXCEPT !.default_fn = Some(a.lit.value)]
                ELSE [acc EXCEPT !.err = Some("Expected string literal")]
          [] a.path = "default" -> [acc EXCEPT !.default_lit = Some(a.lit.value)]
          [] OTHER -> [acc EXCEPT !.err = Some("Unknown perstruct attribute (available: key, default_fn, default, skip)")]
    ELSE IF a.meta = "Path" THEN
        IF a.path = "skip" THEN [acc EXCEPT !.skip = TRUE]
        ELSE [acc EXCEPT !.err = Some("Unknown perstruct attribute (available: key, default_fn, default, skip)")]
    ELSE [acc EXCEPT !.err = Some("Parse args failed")]

\* one iteration of `for attr in &field.attrs` of expand_settings
SettingAttr(acc, a) ==
    IF acc.err # None \/ a.attr # "setting" THEN acc
    ELSE IF a.meta = "NameValue" THEN
        CASE a.path = "key" ->
                IF a.lit.kind = "Str" THEN [acc EXCEPT !.key = Some(a.lit.value)]
                ELSE [acc EXCEPT !.err = Some("Expected string literal")]
          [] a.path = "default_fn" ->
                IF a.lit.kind = "Str" THEN [acc EXCEPT !.default_fn = Some(a.lit.value)]
                ELSE [acc EXCEPT !.err = Some("Expected string literal")]
          [] a.path = "default" -> [acc EXCEPT !.default_lit = Some(a.lit.value)]
          [] OTHER -> [acc EXCEPT !.err = Some("Unknown setting attribute")]
    ELSE [acc EXCEPT !.err = Some("Parse args failed")]

RECURSIVE ParseAttrs(_, _, _)
ParseAttrs(mac, acc, attrs) ==
    IF attrs = <<>> THEN acc
    ELSE ParseAttrs(mac,
                    IF mac = "perstruct" THEN PerstructAttr(acc, Head(attrs))
                    ELSE SettingAttr(acc, Head(attrs)),
                    Tail(attrs))

ParseField(mac, f) == ParseAttrs(mac, NewField(f), f.attrs)

\* faulty variant: a process_struct that tracks the skipped fields too
process_struct_no_skip(input) ==
    [i \in DOMAIN input |-> ParseField("perstruct", input[i])]

\* process_struct: the tracked fields, in declaration order
process_struct(input) ==
    LET parsed == [i \in DOMAIN input |-> ParseField("perstruct", input[i])]
    IN  SelectSeq(parsed, LAMBDA p : ~p.skip)

\* process_struct: the idents of the #[perstruct(skip)] fields
skipped_fields(input) ==
    LET parsed == [i \in DOMAIN input |-> ParseField("perstruct", input[i])]
    IN  SelectSeq(parsed, LAMBDA p : p.skip)

\* expand_settings: every field is tracked
expand_settings(input) == [i \in DOMAIN input |-> ParseField("settings", input[i])]

\* whether the macro returns a syn::Error for the struct
ExpansionFails(mac, input) == \E i \in DOMAIN input : ParseField(mac, input[i]).err # None

(* --------------------------- the generated code ------------------------ *)

\* faulty variant: the field's name, whatever alias it declares
KeyOf_ident(f) == f.ident

\* field.key.clone().unwrap_or(field.ident.to_string())
KeyOf(f) == IF f.key = None THEN f.ident ELSE f.key[1]

\* the fields the macro generates accessors, match arms and keys for
Tracked(mac, name) ==
    IF mac = "perstruct" THEN process_struct(ItemStruct(name))
    ELSE expand_settings(ItemStruct(name))

\* the fields the macro only default-initialises
Skipped(mac, name) ==
    IF mac = "perstruct" THEN skipped_fields(ItemStruct(name)) ELSE <<>>

\* faulty variant: a catalogue of the field names
perstruct_keys_idents(fields) == [i \in DOMAIN fields |-> fields[i].ident]

\* pub fn perstruct_keys() -> Vec<&'static str>
perstruct_keys(fields) == [i \in DOMAIN fields |-> KeyOf(fields[i])]

\* `match key { #(#match_arms)*, _ => {} }`: the first arm whose literal
\* equals the key, 0 for the wildcard arm
MatchArm(fields, key) ==
    IF \E i \in DOMAIN fields : KeyOf(fields[i]) = key
    THEN CHOOSE i \in DOMAIN fields :
            /\ KeyOf(fields[i]) = key
            /\ \A j \in DOMAIN fields : KeyOf(fields[j]) = key => i <= j
    ELSE 0

\* faulty variant: an initialiser that ignores the literal default
default_field_no_literal(f) ==
    IF f.default_fn # None THEN CallFn(f.default_fn[1]) ELSE TypeDefault(f.ty)

\* faulty variant: an initialiser that looks at the literal first
default_field_literal_first(f) ==
    IF f.default_lit # None THEN f.default_lit[1]
    ELSE IF f.default_fn # None THEN CallFn(f.default_fn[1])
    ELSE TypeDefault(f.ty)

\* generate_default_impl: the initialiser of one tracked field
default_field(f) ==
    IF f.default_fn # None THEN CallFn(f.default_fn[1])
    ELSE IF f.default_lit # None THEN f.default_lit[1]
    ELSE TypeDefault(f.ty)

\* the empty _perstruct_dirty_fields: a HashSet (perstruct), a Vec (settings)
EmptyDirty(mac) == IF mac = "perstruct" THEN {} ELSE <<>>

\* impl Default: the field values of Self::default()
default_values(fields, skipped) ==
    [id \in {fields[i].ident : i \in DOMAIN fields} \cup {skipped[i].ident : i \in DOMAIN skipped} |->
        IF \E i \in DOMAIN fields : fields[i].ident = id
        THEN default_field(fields[CHOOSE i \in DOMAIN fields : fields[i].ident = id])
        ELSE TypeDefault(skipped[CHOOSE i \in DOMAIN skipped : skipped[i].ident = id].ty)]

\* faulty variant: set_f that does not mark the key
set_dirty_unmarked(mac, dirty, key) == dirty

\* faulty variant: set_f that forgets the keys marked before
set_dirty_reset(mac, dirty, key) ==
    IF mac = "perstruct" THEN {key} ELSE <<key>>

\* pub fn set_f(&mut self, value): the dirty collection after the call
set_dirty(mac, dirty, key) ==
    IF mac = "perstruct" THEN dirty \cup {key} ELSE Append(dirty, key)

\* faulty variant: perstruct_saved() that leaves the keys in place
saved_dirty_kept(mac, dirty) == dirty

\* pub fn perstruct_saved(&mut self): self._perstruct_dirty_fields.clear()
saved_dirty(mac, dirty) == EmptyDirty(mac)

\* the loop of perstruct_get_changes over the dirty keys in iteration order
RECURSIVE get_changes_loop(_, _, _, _, _)
get_changes_loop(mac, fields, values, order, changes) ==
    IF order = <<>> THEN [ok |-> TRUE, panic |-> FALSE, v |-> changes]
    ELSE LET key == Head(order)
             i == MatchArm(fields, key)
         IN  IF i = 0 THEN get_changes_loop(mac, fields, values, Tail(order), changes)
             ELSE LET value == to_string(fields[i].ty, values[fields[i].ident])
                  IN  IF value.ok
                      THEN get_changes_loop(mac, fields, values, Tail(order),
                                            Append(changes, <<key, value.v>>))
                      ELSE IF mac = "perstruct"
                           THEN [ok |-> FALSE, panic |-> FALSE, e |-> value.e]   \* map_err(..)?
                           ELSE [ok |-> FALSE, panic |-> TRUE, e |-> value.e]    \* .unwrap()

\* faulty variant: an export of every tracked field, dirty or not
perstruct_get_changes_all(mac, fields, values, order) ==
    get_changes_loop(mac, fields, values, perstruct_keys(fields), <<>>)

\* pub fn perstruct_get_changes(&self)
perstruct_get_changes(mac, fields, values, order) ==
    get_changes_loop(mac, fields, values, order, <<>>)

\* faulty variant: a successful load that leaves the key dirty
from_map_step_keeps_dirty(mac, fields, acc, key, value) ==
    LET i == MatchArm(fields, key)
    IN  IF i = 0
        THEN IF mac = "perstruct"
             THEN [acc EXCEPT !.unknown_fields = Append(@, key)]
             ELSE acc
        ELSE LET r == from_str(fields[i].ty, value)
             IN  IF r.ok
                 THEN IF mac = "perstruct"
                      THEN [acc EXCEPT !.struct_value[fields[i].ident] = r.v]
                      ELSE [acc EXCEPT !.struct_value[fields[i].ident] = r.v]
                 ELSE [acc EXCEPT !.deserialization_errors = Append(@, <<key, r.e>>)]

\* faulty variant: a failed load that clears the key as a successful one does
from_map_step_failure_clean(mac, fields, acc, key, value) ==
    LET i == MatchArm(fields, key)
    IN  IF i = 0
        THEN IF mac = "perstruct"
             THEN [acc EXCEPT !.unknown_fields = Append(@, key)]
             ELSE acc
        ELSE LET r == from_str(fields[i].ty, value)
             IN  IF r.ok
                 THEN IF mac = "perstruct"
                      THEN [acc EXCEPT !.struct_value[fields[i].ident] = r.v,
                                       !.dirty_fields = @ \ {key}]
                      ELSE [acc EXCEPT !.struct_value[fields[i].ident] = r.v]
                 ELSE [acc EXCEPT !.deserialization_errors = Append(@, <<key, r.e>>),
                                  !.dirty_fields = IF mac = "perstruct" THEN @ \ {key} ELSE @]

\* faulty variant: an unknown key that is marked dirty
from_map_step_unknown_dirty(mac, fields, acc, key, value) ==
    LET i == MatchArm(fields, key)
    IN  IF i = 0
        THEN IF mac = "perstruct"
             THEN [acc EXCEPT !.unknown_fields = Append(@, key),
                              !.dirty_fields = @ \cup {key}]
             ELSE acc
        ELSE LET r == from_str(fields[i].ty, value)
             IN  IF r.ok
                 THEN IF mac = "perstruct"
                      THEN [acc EXCEPT !.struct_value[fields[i].ident] = r.v,
                                       !.dirty_fields = @ \ {key}]
                      ELSE [acc EXCEPT !.struct_value[fields[i].ident] = r.v]
                 ELSE [acc EXCEPT !.deserialization_errors = Append(@, <<key, r.e>>)]

\* one iteration of `for (key, value) in map.iter()` of from_map
from_map_step(mac, fields, acc, key, value) ==
    LET i == MatchArm(fields, key)
    IN  IF i = 0
        THEN IF mac = "perstruct"
             THEN [acc EXCEPT !.unknown_fields = Append(@, key)]
             ELSE acc
        ELSE LET r == from_str(fields[i].ty, value)
             IN  IF r.ok
                 THEN IF mac = "perstruct"
                      THEN [acc EXCEPT !.struct_value[fields[i].ident] = r.v,
                                       !.dirty_fields = @ \ {key}]
                      ELSE [acc EXCEPT !.struct_value[fields[i].ident] = r.v]
                 ELSE [acc EXCEPT !.deserialization_errors = Append(@, <<key, r.e>>)]

\* faulty variant: a loop that stops at the first string that does not decode
RECURSIVE from_map_loop_abort(_, _, _, _, _)
from_map_loop_abort(mac, fields, acc, map, order) ==
    IF order = <<>> \/ acc.deserialization_errors # <<>> THEN acc
    ELSE from_map_loop_abort(mac, fields,
                             from_map_step(mac, fields, acc, Head(order), map[Head(order)]),
                             map, Tail(order))

\* faulty variant: a loop that breaks at the first key of no field
RECURSIVE from_map_loop_break(_, _, _, _, _)
from_map_loop_break(mac, fields, acc, map, order) ==
    IF order = <<>> THEN acc
    ELSE IF MatchArm(fields, Head(order)) = 0
         THEN from_map_step(mac, fields, acc, Head(order), map[Head(order)])
         ELSE from_map_loop_break(mac, fields,
                                  from_map_step(mac, fields, acc, Head(order), map[Head(order)]),
                                  map, Tail(order))

RECURSIVE from_map_loop(_, _, _, _, _)
from_map_loop(mac, fields, acc, map, order) ==
    IF order = <<>> THEN acc
    ELSE from_map_loop(mac, fields,
                       from_map_step(mac, fields, acc, Head(order), map[Head(order)]),
                       map, Tail(order))

\* faulty variant: from_map that starts from an empty dirty set
from_map_unseeded(mac, fields, skipped, map, order) ==
    from_map_loop(mac, fields,
                  [struct_value |-> default_values(fields, skipped),
                   dirty_fields |-> EmptyDirty(mac),
                   deserialization_errors |-> <<>>,
                   unknown_fields |-> <<>>],
                  map, order)

\* pub fn from_map(map): order is the order in which map.iter() yields the keys
from_map(mac, fields, skipped, map, order) ==
    from_map_loop(mac, fields,
                  [struct_value |-> default_values(fields, skipped),
                   dirty_fields |-> IF mac = "perstruct" THEN Range(perstruct_keys(fields)) ELSE <<>>,
                   deserialization_errors |-> <<>>,
                   unknown_fields |-> <<>>],
                  map, order)

(* ------------------------------ the state ------------------------------ *)

VARIABLES
    macro,                  \* "perstruct" or "settings": the attribute that expanded the struct
    item,                   \* the annotated struct, one of AllItems
    struct_value,           \* the record's fields: ident -> value
    perstruct_dirty_fields, \* _perstruct_dirty_fields: HashSet<&str> (perstruct), Vec<&str> (settings)
    call,                   \* the last call made on the record, with its arguments
    ret,                    \* what that call returned
    before,                 \* the record as the last call found it
    panicked,               \* the last call panicked
    store,                  \* the caller's key-value store: external key -> stored string
    exported                \* the changes the caller holds between export and acknowledge

vars == <<macro, item, struct_value, perstruct_dirty_fields, call, ret, before, panicked,
          store, exported>>

\* the expansion of each item, computed once
TrackedOf == [name \in AllItems |-> Tracked(MacroOf(name), name)]
SkippedOf == [name \in AllItems |-> Skipped(MacroOf(name), name)]

Fields == TrackedOf[item]
SkippedFields == SkippedOf[item]
Keys == Range(perstruct_keys(Fields))
IdentsOf == [name \in AllItems |-> {TrackedOf[name][i].ident : i \in DOMAIN TrackedOf[name]}]
FieldByIdent ==
    [name \in AllItems |->
        [id \in IdentsOf[name] |->
            TrackedOf[name][CHOOSE i \in DOMAIN TrackedOf[name] : TrackedOf[name][i].ident = id]]]

FieldOfKey(key) == Fields[MatchArm(Fields, key)]
FieldOfIdent(id) == FieldByIdent[item][id]
Idents == IdentsOf[item]

\* the iteration orders of every set of external keys, computed once
OrdersOf ==
    [name \in AllItems |-> [S \in SUBSET Range(perstruct_keys(TrackedOf[name])) |-> Orders(S)]]

\* the record as a call finds it
Snapshot == [struct_value |-> struct_value, dirty |-> perstruct_dirty_fields]

\* the keys in _perstruct_dirty_fields, whichever collection holds them
DirtySet(d) == IF macro = "perstruct" THEN d ELSE Range(d)
dirty_fields == DirtySet(perstruct_dirty_fields)

(* ------------------------------ the inputs ----------------------------- *)

RECURSIVE Units(_)
Units(n) == IF n = 0 THEN <<>> ELSE Append(Units(n - 1), "()")

\* the values a caller passes to set_f
InputValues(ty) ==
    CASE ty = "i32" -> 0..MaxI32
      [] ty = "Foo" -> {"Foo{}"}
      [] ty = "Vec<()>" -> {Units(n) : n \in 0..MaxVecLen}
      [] ty = "HashMap<(i32,i32),()>" -> {{}, {<<0, 0>>}}

\* the closures a caller passes to update_f
Mutators(ty) ==
    CASE ty = "i32" -> {"noop", "incr"}
      [] ty = "Foo" -> {"noop"}
      [] ty = "Vec<()>" -> {"noop", "push"}
      [] ty = "HashMap<(i32,i32),()>" -> {"noop", "insert"}

\* whether the closure can run on v within the bounds
CanMutate(m, v) ==
    CASE m = "incr" -> v < MaxI32
      [] m = "push" -> Len(v) < MaxVecLen
      [] OTHER -> TRUE

\* faulty variant: an update_f that never calls the closure
Mutate_skipped(m, v) == v

\* f(&mut self.ident)
Mutate(m, v) ==
    CASE m = "noop" -> v
      [] m = "incr" -> v + 1
      [] m = "push" -> Append(v, "()")
      [] m = "insert" -> v \cup {<<0, 0>>}

\* the strings a stored map may hold
RawStrings == {"3", "\"a\"", "null", "{}", "[null]"}

\* the keys a stored map may hold: the external keys, the idents of the
\* declared fields (aliased, skipped or not) and a key of no field
MapKeys(name) ==
    Range(perstruct_keys(TrackedOf[name]))
        \cup {ItemStruct(name)[i].ident : i \in DOMAIN ItemStruct(name)} \cup {"whatever"}

MapsOf ==
    [name \in AllItems |->
        UNION {[D -> RawStrings] : D \in {D \in SUBSET MapKeys(name) : Cardinality(D) <= MaxMapLen}}]

Maps == MapsOf[item]

(* ------------------------------ the calls ------------------------------ *)

Init ==
    /\ item \in Items
    /\ macro = MacroOf(item)
    /\ struct_value = default_values(TrackedOf[item], SkippedOf[item])
    /\ perstruct_dirty_fields = EmptyDirty(macro)
    /\ call = [fn |-> "default"]
    /\ ret = "Self"
    /\ before = [struct_value |-> struct_value, dirty |-> perstruct_dirty_fields]
    /\ panicked = FALSE
    /\ store = <<>>
    /\ exported = None

\* let settings = MySettings::default();
Default ==
    /\ ~panicked
    /\ struct_value' = default_values(Fields, SkippedFields)
    /\ perstruct_dirty_fields' = EmptyDirty(macro)
    /\ call' = [fn |-> "default"]
    /\ ret' = "Self"
    /\ before' = [struct_value |-> struct_value', dirty |-> perstruct_dirty_fields']
    /\ UNCHANGED <<store, exported, macro, item, panicked>>

\* let loaded = MySettings::from_map(&map);  an associated function: it reads
\* no record, so the model calls it right after default() only.  The map and
\* the order in which map.iter() yields its entries are the inputs.
FromMap ==
    /\ ~panicked
    /\ call.fn = "default"
    /\ \E map \in Maps : \E order \in Orders(DOMAIN map) :
        \E r \in {from_map(macro, Fields, SkippedFields, map, order)} :
            /\ struct_value' = r.struct_value
            /\ perstruct_dirty_fields' = r.dirty_fields
            /\ ret' = IF macro = "perstruct"
                      THEN [deserialization_errors |-> r.deserialization_errors,
                            unknown_fields |-> r.unknown_fields]
                      ELSE [deserialization_errors |-> r.deserialization_errors]
            /\ call' = [fn |-> "from_map", map |-> map, order |-> order, of |-> "store"]
    /\ before' = [struct_value |-> struct_value', dirty |-> perstruct_dirty_fields']
    /\ UNCHANGED <<store, exported, macro, item, panicked>>

\* changes.into_iter().collect::<HashMap<_, _>>(): a later entry of a key
\* replaces an earlier one
ChangesAsMap(changes) ==
    [key \in {changes[i][1] : i \in DOMAIN changes} |->
        changes[CHOOSE i \in DOMAIN changes :
                    /\ changes[i][1] = key
                    /\ \A j \in DOMAIN changes : changes[j][1] = key => j <= i][2]]

\* let changes = settings.perstruct_get_changes();
\* let loaded = MySettings::from_map(&changes.into_iter().collect());
\* the record the changes were taken from is kept in before
FromMapOfChanges ==
    /\ ~panicked
    /\ call.fn = "perstruct_get_changes"
    /\ macro = "perstruct" => ret.ok
    /\ \E map \in {ChangesAsMap(IF macro = "perstruct" THEN ret.v ELSE ret)} :
        \E order \in Orders(DOMAIN map) :
        \E r \in {from_map(macro, Fields, SkippedFields, map, order)} :
            /\ struct_value' = r.struct_value
            /\ perstruct_dirty_fields' = r.dirty_fields
            /\ ret' = IF macro = "perstruct"
                      THEN [deserialization_errors |-> r.deserialization_errors,
                            unknown_fields |-> r.unknown_fields]
                      ELSE [deserialization_errors |-> r.deserialization_errors]
            /\ call' = [fn |-> "from_map", map |-> map, order |-> order, of |-> "changes"]
    /\ before' = Snapshot
    /\ UNCHANGED <<store, exported, macro, item, panicked>>

\* settings.f()
Get(id) ==
    /\ ~panicked
    /\ call' = [fn |-> "get", ident |-> id]
    /\ ret' = struct_value[id]
    /\ before' = Snapshot
    /\ UNCHANGED <<store, exported, macro, item, struct_value, perstruct_dirty_fields, panicked>>

\* settings.set_f(value)
Set(id, value) ==
    /\ ~panicked
    /\ macro = "settings" => Len(perstruct_dirty_fields) < MaxDirtyLen
    /\ struct_value' = [struct_value EXCEPT ![id] = value]
    /\ perstruct_dirty_fields' = set_dirty(macro, perstruct_dirty_fields, KeyOf(FieldOfIdent(id)))
    /\ call' = [fn |-> "set", ident |-> id, value |-> value]
    /\ ret' = "()"
    /\ before' = Snapshot
    /\ UNCHANGED <<store, exported, macro, item, panicked>>

\* settings.update_f(f): generated by perstruct only
Update(id, m) ==
    /\ ~panicked
    /\ macro = "perstruct"
    /\ CanMutate(m, struct_value[id])
    /\ struct_value' = [struct_value EXCEPT ![id] = Mutate(m, @)]
    /\ perstruct_dirty_fields' = set_dirty(macro, perstruct_dirty_fields, KeyOf(FieldOfIdent(id)))
    /\ call' = [fn |-> "update", ident |-> id, mutator |-> m]
    /\ ret' = "()"
    /\ before' = Snapshot
    /\ UNCHANGED <<store, exported, macro, item, panicked>>

\* settings.perstruct_dirty_fields()
DirtyFields ==
    /\ ~panicked
    /\ call' = [fn |-> "perstruct_dirty_fields"]
    /\ ret' = perstruct_dirty_fields
    /\ before' = Snapshot
    /\ UNCHANGED <<store, exported, macro, item, struct_value, perstruct_dirty_fields, panicked>>

\* MySettings::perstruct_keys()
PerstructKeys ==
    /\ ~panicked
    /\ call' = [fn |-> "perstruct_keys"]
    /\ ret' = perstruct_keys(Fields)
    /\ before' = Snapshot
    /\ UNCHANGED <<store, exported, macro, item, struct_value, perstruct_dirty_fields, panicked>>

\* the orders in which self._perstruct_dirty_fields.iter() may yield the keys
IterOrders == IF macro = "perstruct" THEN OrdersOf[item][perstruct_dirty_fields] ELSE {perstruct_dirty_fields}

\* settings.perstruct_get_changes()
GetChanges(order) ==
    /\ ~panicked
    /\ \E r \in {perstruct_get_changes(macro, Fields, struct_value, order)} :
           /\ panicked' = r.panic
           /\ ret' = IF r.panic THEN "panic"
                     ELSE IF macro = "perstruct" THEN (IF r.ok THEN Ok(r.v) ELSE Err(r.e))
                     ELSE r.v
    /\ call' = [fn |-> "perstruct_get_changes", order |-> order]
    /\ before' = Snapshot
    /\ UNCHANGED <<store, exported, macro, item, struct_value, perstruct_dirty_fields>>

\* settings.perstruct_saved()
Saved ==
    /\ ~panicked
    /\ perstruct_dirty_fields' = saved_dirty(macro, perstruct_dirty_fields)
    /\ call' = [fn |-> "perstruct_saved"]
    /\ ret' = "()"
    /\ before' = Snapshot
    /\ UNCHANGED <<store, exported, macro, item, struct_value, panicked>>

Next ==
    \/ Default
    \/ FromMap
    \/ FromMapOfChanges
    \/ \E id \in Idents : Get(id)
    \/ \E id \in Idents : \E value \in InputValues(FieldOfIdent(id).ty) : Set(id, value)
    \/ \E id \in Idents : \E m \in Mutators(FieldOfIdent(id).ty) : Update(id, m)
    \/ DirtyFields
    \/ PerstructKeys
    \/ \E order \in IterOrders : GetChanges(order)
    \/ Saved

Spec == Init /\ [][Next]_vars

\* the same calls on a record of a struct with a duplicate external key
InitDup ==
    /\ item \in DupItems
    /\ macro = MacroOf(item)
    /\ struct_value = default_values(TrackedOf[item], SkippedOf[item])
    /\ perstruct_dirty_fields = EmptyDirty(macro)
    /\ call = [fn |-> "default"]
    /\ ret = "Self"
    /\ before = [struct_value |-> struct_value, dirty |-> perstruct_dirty_fields]
    /\ panicked = FALSE
    /\ store = <<>>
    /\ exported = None

SpecDup == InitDup /\ [][Next]_vars

(* ------------------------ the caller and its store --------------------- *)

\* the structs whose records the caller loads from and saves to a store
StoreItems == {"perstruct::Prefs", "settings::Prefs"}

\* what the store holds when the record is loaded: a string that decodes as
\* i32 and as nothing else, one that decodes as a map, one that never decodes
StoredStrings == {"3", "{}", "null"}

StoredMaps(name) ==
    UNION {[D -> StoredStrings] :
              D \in {D \in SUBSET Range(perstruct_keys(TrackedOf[name])) : Cardinality(D) <= MaxMapLen}}

\* let loaded = MySettings::from_map(&store);
InitStore ==
    /\ item \in StoreItems
    /\ macro = MacroOf(item)
    /\ store \in StoredMaps(item)
    /\ \E order \in Orders(DOMAIN store) :
        \E r \in {from_map(macro, TrackedOf[item], SkippedOf[item], store, order)} :
            /\ struct_value = r.struct_value
            /\ perstruct_dirty_fields = r.dirty_fields
            /\ ret = IF macro = "perstruct"
                     THEN [deserialization_errors |-> r.deserialization_errors,
                           unknown_fields |-> r.unknown_fields]
                     ELSE [deserialization_errors |-> r.deserialization_errors]
            /\ call = [fn |-> "from_map", map |-> store, order |-> order, of |-> "store"]
    /\ before = [struct_value |-> struct_value, dirty |-> perstruct_dirty_fields]
    /\ panicked = FALSE
    /\ exported = None

\* let changes = settings.perstruct_get_changes()?;  the caller keeps the
\* changes; an Err leaves it with nothing to write
Export(order) ==
    /\ ~panicked
    /\ exported = None
    /\ \E r \in {perstruct_get_changes(macro, Fields, struct_value, order)} :
           /\ panicked' = r.panic
           /\ ret' = IF r.panic THEN "panic"
                     ELSE IF macro = "perstruct" THEN (IF r.ok THEN Ok(r.v) ELSE Err(r.e))
                     ELSE r.v
           /\ exported' = IF r.ok THEN Some([changes |-> r.v, written |-> FALSE]) ELSE None
    /\ call' = [fn |-> "perstruct_get_changes", order |-> order]
    /\ before' = Snapshot
    /\ UNCHANGED <<store, macro, item, struct_value, perstruct_dirty_fields>>

\* for (key, value) in changes { store.insert(key, value); }
RECURSIVE Write(_, _)
Write(map, changes) ==
    IF changes = <<>> THEN map
    ELSE Write([key \in DOMAIN map \cup {Head(changes)[1]} |->
                   IF key = Head(changes)[1] THEN Head(changes)[2] ELSE map[key]],
               Tail(changes))

\* the caller writes every exported entry to the store
Persist ==
    /\ ~panicked
    /\ exported # None
    /\ ~exported[1].written
    /\ store' = Write(store, exported[1].changes)
    /\ exported' = Some([exported[1] EXCEPT !.written = TRUE])
    /\ UNCHANGED <<macro, item, struct_value, perstruct_dirty_fields, call, ret, before, panicked>>

\* settings.perstruct_saved(), once the changes are in the store
Acknowledge ==
    /\ ~panicked
    /\ exported # None
    /\ exported[1].written
    /\ perstruct_dirty_fields' = saved_dirty(macro, perstruct_dirty_fields)
    /\ call' = [fn |-> "perstruct_saved"]
    /\ ret' = "()"
    /\ before' = Snapshot
    /\ exported' = None
    /\ UNCHANGED <<store, macro, item, struct_value, panicked>>

\* set_f and update_f of a caller that does not touch the record between
\* export and acknowledge
IdleSet(id, value) == exported = None /\ Set(id, value)
IdleUpdate(id, m) == exported = None /\ Update(id, m)

NextCycle ==
    \/ \E id \in Idents : \E value \in InputValues(FieldOfIdent(id).ty) : IdleSet(id, value)
    \/ \E id \in Idents : \E m \in Mutators(FieldOfIdent(id).ty) : IdleUpdate(id, m)
    \/ \E order \in IterOrders : Export(order)
    \/ Persist
    \/ Acknowledge

\* load, then cycles of mutate, export, persist, acknowledge
SpecCycle == InitStore /\ [][NextCycle]_vars

\* the same caller, mutating the record whenever it likes
NextRace ==
    \/ \E id \in Idents : \E value \in InputValues(FieldOfIdent(id).ty) : Set(id, value)
    \/ \E id \in Idents : \E m \in Mutators(FieldOfIdent(id).ty) : Update(id, m)
    \/ \E order \in IterOrders : Export(order)
    \/ Persist
    \/ Acknowledge

\* the record #[perstruct] generates, loaded from the store
InitRace == InitStore /\ macro = "perstruct"

SpecRace == InitRace /\ [][NextRace]_vars

(* ------------------------------ the claims ----------------------------- *)

\* the external key of the tracked field named id
KeyOfIdent(id) == KeyOf(FieldOfIdent(id))

\* how often key occurs in the sequence s
Count(s, key) == Cardinality({i \in DOMAIN s : s[i] = key})

\* C1: after set_f(v) the field holds v (the getter returns the field) and
\* f's external key is in the dirty set, whatever the field held before.
C1_SetMarksDirty ==
    /\ call.fn = "set" =>
          /\ struct_value[call.ident] = call.value
          /\ KeyOfIdent(call.ident) \in dirty_fields
    /\ call.fn = "get" => ret = struct_value[call.ident]

\* set_f(v) with v equal to the field's value, on a record where f was clean
C1_Witness ==
    /\ call.fn = "set"
    /\ call.value = before.struct_value[call.ident]
    /\ KeyOfIdent(call.ident) \notin DirtySet(before.dirty)
    /\ KeyOfIdent(call.ident) # call.ident

\* the defaults a declaration names, read off its attributes
DeclaredDefaults(d) ==
    {d.attrs[i].lit.value :
        i \in {j \in DOMAIN d.attrs : d.attrs[j].meta = "NameValue" /\ d.attrs[j].path = "default"}}
    \cup
    {CallFn(d.attrs[i].lit.value) :
        i \in {j \in DOMAIN d.attrs : d.attrs[j].meta = "NameValue" /\ d.attrs[j].path = "default_fn"}}

IsSkipDecl(d) == \E i \in DOMAIN d.attrs : d.attrs[i].meta = "Path" /\ d.attrs[i].path = "skip"

\* the record default() must produce does not depend on what came before
DefaultIsPure ==
    (call.fn = "default" /\ call'.fn = "default") =>
        (struct_value' = struct_value /\ perstruct_dirty_fields' = perstruct_dirty_fields)

\* C2: default() gives every declared field, skipped ones included, a
\* default its declaration names (the type's default when it names none),
\* leaves the dirty set empty, and gives the same record when called again.
C2_DefaultRecord ==
    /\ [](call.fn = "default" =>
            /\ dirty_fields = {}
            /\ DOMAIN struct_value = {ItemStruct(item)[i].ident : i \in DOMAIN ItemStruct(item)}
            /\ \A i \in DOMAIN ItemStruct(item) :
                 LET d == ItemStruct(item)[i]
                 IN  IF IsSkipDecl(d) \/ DeclaredDefaults(d) = {}
                     THEN struct_value[d.ident] = TypeDefault(d.ty)
                     ELSE struct_value[d.ident] \in DeclaredDefaults(d))
    /\ [][DefaultIsPure]_vars

\* default() on a struct with a skipped field and declared defaults
C2_Witness ==
    /\ call.fn = "default"
    /\ SkippedFields # <<>>
    /\ \E i \in DOMAIN Fields : Fields[i].default_lit # None
    /\ struct_value["cache"] = 0

\* the changes the last perstruct_get_changes() returned, when it returned any
Returned == IF macro = "perstruct" THEN ret.ok ELSE ~panicked
Changes == IF macro = "perstruct" THEN ret.v ELSE ret

\* C3 as claimed: perstruct_get_changes() returns exactly one entry per
\* dirty key, none for another key, each with the encoding of the field's
\* current value.
C3_OneChangePerDirtyKey ==
    (call.fn = "perstruct_get_changes" /\ Returned) =>
        /\ \A key \in dirty_fields :
             Cardinality({i \in DOMAIN Changes : Changes[i][1] = key}) = 1
        /\ \A i \in DOMAIN Changes :
             /\ Changes[i][1] \in dirty_fields
             /\ Changes[i][2] = to_string(FieldOfKey(Changes[i][1]).ty,
                                          struct_value[FieldOfKey(Changes[i][1]).ident]).v

\* C4: perstruct_saved() empties the dirty set and leaves the fields alone;
\* on a clean record it changes nothing, a second call changes nothing, and
\* a perstruct_get_changes() right after it returns no entries.
C4_SavedState ==
    call.fn = "perstruct_saved" =>
        /\ dirty_fields = {}
        /\ perstruct_dirty_fields = EmptyDirty(macro)
        /\ struct_value = before.struct_value
        /\ DirtySet(before.dirty) = {} => perstruct_dirty_fields = before.dirty

C4_SavedStep ==
    call.fn = "perstruct_saved" =>
        /\ call'.fn = "perstruct_saved" =>
              (struct_value' = struct_value /\ perstruct_dirty_fields' = perstruct_dirty_fields)
        /\ call'.fn = "perstruct_get_changes" =>
              ret' = (IF macro = "perstruct" THEN Ok(<<>>) ELSE <<>>)

C4_SavedClears == []C4_SavedState /\ [][C4_SavedStep]_vars

\* perstruct_saved() on a record with modified fields and several dirty keys
C4_Witness ==
    /\ call.fn = "perstruct_saved"
    /\ Cardinality(DirtySet(before.dirty)) >= 2
    /\ struct_value # default_values(Fields, SkippedFields)

\* whether the stored string of a known key decodes into its field's type
Known(key) == key \in Keys
Decoded(map, key) == from_str(FieldOfKey(key).ty, map[key])

\* C5: from_map on a known key whose string decodes: the field holds the
\* decoded value and the key is not dirty.
C5_LoadedFieldIsClean ==
    call.fn = "from_map" =>
        \A key \in DOMAIN call.map :
            (Known(key) /\ Decoded(call.map, key).ok) =>
                /\ struct_value[FieldOfKey(key).ident] = Decoded(call.map, key).v
                /\ key \notin dirty_fields

\* from_map loaded an aliased field with a value other than its default
C5_Witness ==
    /\ call.fn = "from_map"
    /\ macro = "perstruct"
    /\ "b" \in DOMAIN call.map
    /\ struct_value["a"] = 3
    /\ "b" \notin dirty_fields
    /\ dirty_fields # {}

\* C3, for the records #[perstruct] generates (a HashSet of dirty keys)
C3_PerstructOneChangePerDirtyKey == macro = "perstruct" => C3_OneChangePerDirtyKey

\* the default of the tracked field a known key names
DefaultOfKey(key) == default_values(Fields, SkippedFields)[FieldOfKey(key).ident]

\* from_map recorded (key, message) for a known key whose string does not
\* decode, and left the field at its default
FailureRecorded(key) ==
    /\ \E i \in DOMAIN ret.deserialization_errors :
          ret.deserialization_errors[i] = <<key, Decoded(call.map, key).e>>
    /\ struct_value[FieldOfKey(key).ident] = DefaultOfKey(key)

\* C6 as claimed: a known key whose string fails to decode is reported with
\* its message, its field keeps the default and the key is dirty.
C6_FailedKeyStaysDirty ==
    call.fn = "from_map" =>
        \A key \in DOMAIN call.map :
            (Known(key) /\ ~Decoded(call.map, key).ok) =>
                (FailureRecorded(key) /\ key \in dirty_fields)

\* C6 as amended: reported, left at the default, and dirty in a record
\* #[perstruct] generated; from_map of #[settings] returns an empty dirty list.
C6_FailedKeyReported ==
    call.fn = "from_map" =>
        /\ \A key \in DOMAIN call.map :
              (Known(key) /\ ~Decoded(call.map, key).ok) =>
                  (FailureRecorded(key) /\ (macro = "perstruct" => key \in dirty_fields))
        /\ macro = "settings" => perstruct_dirty_fields = <<>>

\* #[perstruct] from_map met a string that does not decode, and one that does
C6_Witness ==
    /\ call.fn = "from_map"
    /\ macro = "perstruct"
    /\ \E key \in DOMAIN call.map : Known(key) /\ ~Decoded(call.map, key).ok /\ key \in dirty_fields
    /\ \E key \in DOMAIN call.map : Known(key) /\ Decoded(call.map, key).ok

\* C7 as claimed: a tracked field whose key the map lacks keeps its default
\* and its key is dirty.
C7_AbsentKeyStaysDirty ==
    call.fn = "from_map" =>
        \A key \in Keys \ DOMAIN call.map :
            /\ struct_value[FieldOfKey(key).ident] = DefaultOfKey(key)
            /\ key \in dirty_fields

\* C7 as amended: the absent field keeps its default; its key is dirty in a
\* record #[perstruct] generated, whose from_map seeds the dirty set with every
\* tracked key, and is not dirty in one #[settings] generated.
C7_AbsentKeyByMacro ==
    call.fn = "from_map" =>
        /\ \A key \in Keys \ DOMAIN call.map :
              /\ struct_value[FieldOfKey(key).ident] = DefaultOfKey(key)
              /\ macro = "perstruct" => key \in dirty_fields
              /\ macro = "settings" => key \notin dirty_fields
        /\ macro = "perstruct" =>
              dirty_fields = Keys \ {key \in DOMAIN call.map : Known(key) /\ Decoded(call.map, key).ok}

\* #[perstruct] from_map on a map that lacks some keys and loads another
C7_Witness ==
    /\ call.fn = "from_map"
    /\ macro = "perstruct"
    /\ Cardinality(Keys \ DOMAIN call.map) >= 2
    /\ \E key \in DOMAIN call.map : Known(key) /\ Decoded(call.map, key).ok
    /\ dirty_fields # Keys

\* C8: from_map returns for every map; each known key whose string decodes
\* is loaded whatever happens to the other entries, and the errors hold one
\* entry for each known key whose string fails to decode and no other entry.
C8_ErrorIsolation ==
    call.fn = "from_map" =>
        /\ ~panicked
        /\ \A key \in DOMAIN call.map :
              /\ (Known(key) /\ Decoded(call.map, key).ok) =>
                    struct_value[FieldOfKey(key).ident] = Decoded(call.map, key).v
              /\ Cardinality({i \in DOMAIN ret.deserialization_errors :
                                  ret.deserialization_errors[i][1] = key})
                    = IF Known(key) /\ ~Decoded(call.map, key).ok THEN 1 ELSE 0
        /\ \A i \in DOMAIN ret.deserialization_errors :
              ret.deserialization_errors[i][1] \in DOMAIN call.map

\* a map with a string for every tracked key, one of them malformed and
\* visited first: one error, the other fields loaded
C8_Witness ==
    /\ call.fn = "from_map"
    /\ DOMAIN call.map = Keys
    /\ Len(ret.deserialization_errors) = 1
    /\ ret.deserialization_errors[1][1] = call.order[1]
    /\ \A key \in Keys \ {call.order[1]} :
          /\ Decoded(call.map, key).ok
          /\ struct_value[FieldOfKey(key).ident] # DefaultOfKey(key)

\* the map without its entries of unknown keys
KnownEntries(map) == [key \in {k \in DOMAIN map : Known(k)} |-> map[key]]

\* C9: from_map of #[perstruct] returns each key of no tracked field once in
\* unknown_fields, unaltered, and nothing else there; the record is the one
\* from_map builds for the map without those entries.
C9_UnknownKeysReported ==
    call.fn = "from_map" =>
        /\ macro = "perstruct" =>
              /\ \A key \in DOMAIN call.map \ Keys : Count(ret.unknown_fields, key) = 1
              /\ \A i \in DOMAIN ret.unknown_fields : ret.unknown_fields[i] \in DOMAIN call.map \ Keys
        /\ \A order \in Orders(DOMAIN KnownEntries(call.map)) :
              \E r \in {from_map(macro, Fields, SkippedFields, KnownEntries(call.map), order)} :
                  /\ r.struct_value = struct_value
                  /\ r.dirty_fields = perstruct_dirty_fields

\* a map that holds an aliased field's ident and a loadable known key
C9_Witness ==
    /\ call.fn = "from_map"
    /\ macro = "perstruct"
    /\ "a" \in DOMAIN call.map
    /\ ret.unknown_fields = <<"a">>
    /\ \E key \in DOMAIN call.map : Known(key) /\ Decoded(call.map, key).ok

\* how often perstruct_dirty_fields() lists key
Occurrences(d, key) == IF macro = "perstruct" THEN (IF key \in d THEN 1 ELSE 0) ELSE Count(d, key)

C10_SetAddsKey ==
    call'.fn \in {"set", "update"} =>
        DirtySet(perstruct_dirty_fields') = dirty_fields \cup {KeyOfIdent(call'.ident)}

\* C10 as claimed: from default() on, perstruct_dirty_fields() holds the
\* external keys of the fields set or updated, each once, and no other key.
C10_DirtyIsSetOfTouched ==
    /\ [](/\ call.fn = "default" => dirty_fields = {}
          /\ \A key \in Keys : Occurrences(perstruct_dirty_fields, key) <= 1)
    /\ [][C10_SetAddsKey]_vars

\* C10, for the records #[perstruct] generates
C10_PerstructDirtyIsSetOfTouched ==
    /\ [](macro = "perstruct" =>
            /\ call.fn = "default" => dirty_fields = {}
            /\ \A key \in Keys : Occurrences(perstruct_dirty_fields, key) <= 1)
    /\ [][macro = "perstruct" => C10_SetAddsKey]_vars

\* C11: loading the changes a record returned, as a map, gives every field
\* that has an entry in the changes the value it has in that record, with no
\* deserialization error and no unknown field.
C11_RoundTrip ==
    (call.fn = "from_map" /\ call.of = "changes") =>
        /\ \A key \in DOMAIN call.map :
              /\ Known(key)
              /\ struct_value[FieldOfKey(key).ident] = before.struct_value[FieldOfKey(key).ident]
        /\ ret.deserialization_errors = <<>>
        /\ macro = "perstruct" => ret.unknown_fields = <<>>

\* the changes of a #[perstruct] record with two fields away from their
\* defaults, one of them aliased and one a sequence, were loaded
C11_Witness ==
    /\ call.fn = "from_map" /\ call.of = "changes"
    /\ macro = "perstruct"
    /\ {"b", "list"} \subseteq DOMAIN call.map
    /\ struct_value["a"] = 1
    /\ Len(struct_value["list"]) = MaxVecLen
    /\ before.struct_value["a"] = 1

\* the calls on an existing record other than perstruct_saved()
KeepsDirty == {"get", "set", "update", "perstruct_dirty_fields", "perstruct_keys",
               "perstruct_get_changes"}

C12_Step ==
    /\ call'.fn \in KeepsDirty =>
          /\ dirty_fields \subseteq DirtySet(perstruct_dirty_fields')
          /\ \A key \in Keys :
                Occurrences(perstruct_dirty_fields, key) <= Occurrences(perstruct_dirty_fields', key)
    /\ call'.fn = "perstruct_get_changes" =>
          /\ struct_value' = struct_value
          /\ perstruct_dirty_fields' = perstruct_dirty_fields
          /\ (call.fn = "perstruct_get_changes" /\ ~panicked) =>
                /\ ~panicked'
                /\ macro = "perstruct" => ret'.ok = ret.ok
                /\ Returned => Range(Changes') = Range(Changes)

\* C12: set_f, update_f, the getters and perstruct_get_changes() remove no
\* key from the dirty set; perstruct_get_changes() leaves the fields and the
\* dirty set as they are, and called twice in a row it returns the same set
\* of entries.
C12_OnlySavedClears == [][C12_Step]_vars

\* perstruct_get_changes() returned two entries, in an order other than the
\* declaration order, from a record with modified fields
C12_Witness ==
    /\ call.fn = "perstruct_get_changes"
    /\ Returned
    /\ Len(Changes) = 2
    /\ Changes[1][1] = "bar" /\ Changes[2][1] = "b"
    /\ dirty_fields = {"b", "bar"}
    /\ struct_value # default_values(Fields, SkippedFields)
    /\ before = Snapshot

\* the external key a declaration resolves to: its alias, else its name
DeclaredKey(d) ==
    LET aliases == {j \in DOMAIN d.attrs : d.attrs[j].meta = "NameValue" /\ d.attrs[j].path = "key"}
    IN  IF aliases = {} THEN d.ident
        ELSE d.attrs[CHOOSE j \in aliases : \A k \in aliases : k <= j].lit.value

\* the resolved keys of the declarations that are not excluded, in
\* declaration order
RECURSIVE DeclaredKeys(_)
DeclaredKeys(decls) ==
    IF decls = <<>> THEN <<>>
    ELSE IF IsSkipDecl(Head(decls)) THEN DeclaredKeys(Tail(decls))
    ELSE <<DeclaredKey(Head(decls))>> \o DeclaredKeys(Tail(decls))

\* C13: perstruct_keys() returns the resolved external keys (alias, else
\* field name) of the non-excluded fields in declaration order, one entry per
\* such field, whatever the state of the record.
C13_KeysCatalogue ==
    call.fn = "perstruct_keys" =>
        /\ ret = DeclaredKeys(ItemStruct(item))
        /\ Len(ret) = Cardinality({i \in DOMAIN ItemStruct(item) : ~IsSkipDecl(ItemStruct(item)[i])})
        /\ item = "perstruct::MySettings" => ret = <<"b", "foo", "bar", "list">>
        /\ item = "settings::MySettings" => ret = <<"b", "foo", "bar">>

\* perstruct_keys() on a struct with an excluded field and an aliased one,
\* called on a record with modified fields and a dirty key
C13_Witness ==
    /\ call.fn = "perstruct_keys"
    /\ ret = <<"n", "map">>
    /\ SkippedFields # <<>>
    /\ dirty_fields # {}
    /\ struct_value # default_values(Fields, SkippedFields)

\* the declarations marked skip
ExcludedDecls == {ItemStruct(item)[i] : i \in {j \in DOMAIN ItemStruct(item) : IsSkipDecl(ItemStruct(item)[j])}}

\* C14: a #[perstruct(skip)] field has no entry in perstruct_keys(), in the
\* dirty set or in the changes; from_map reports a map entry under its name
\* in unknown_fields and leaves the field at its default; default() gives it
\* its type's default.
C14_ExcludedUntracked ==
    \A d \in ExcludedDecls :
        /\ d.ident \notin Keys
        /\ d.ident \notin Idents
        /\ d.ident \notin dirty_fields
        /\ call.fn = "perstruct_keys" => d.ident \notin Range(ret)
        /\ (call.fn = "perstruct_get_changes" /\ Returned) =>
              \A i \in DOMAIN Changes : Changes[i][1] # d.ident
        /\ (call.fn = "from_map" /\ d.ident \in DOMAIN call.map) =>
              /\ Count(ret.unknown_fields, d.ident) = 1
              /\ struct_value[d.ident] = TypeDefault(d.ty)
        /\ call.fn \in {"default", "from_map"} => struct_value[d.ident] = TypeDefault(d.ty)

\* from_map on a map that holds a decodable string under the excluded
\* field's name, next to a key that loads
C14_Witness ==
    /\ call.fn = "from_map"
    /\ ExcludedDecls # {}
    /\ "cache" \in DOMAIN call.map
    /\ call.map["cache"] = "3"
    /\ ret.unknown_fields = <<"cache">>
    /\ struct_value["cache"] = 0
    /\ struct_value["n"] = 3

\* the map holds a decodable string for every tracked key
FullyDecodable(map) == \A key \in Keys : key \in DOMAIN map /\ Decoded(map, key).ok

\* what perstruct_get_changes() returns for the changes v
ReturnedChanges(v) == IF macro = "perstruct" THEN Ok(v) ELSE v

\* the one change set_f(value) leaves, when value encodes
OneChange(id, value) ==
    << <<KeyOfIdent(id), to_string(FieldOfIdent(id).ty, value).v>> >>

\* the record from_map built from a full map is clean, exports nothing, and
\* exports one entry after one set_f
C15_Loaded ==
    (call.fn = "from_map" /\ FullyDecodable(call.map)) =>
        /\ perstruct_dirty_fields = EmptyDirty(macro)
        /\ \A order \in IterOrders :
              perstruct_get_changes(macro, Fields, struct_value, order)
                  = [ok |-> TRUE, panic |-> FALSE, v |-> <<>>]
        /\ \A id \in Idents : \A value \in InputValues(FieldOfIdent(id).ty) :
              to_string(FieldOfIdent(id).ty, value).ok =>
                  LET dirty == set_dirty(macro, perstruct_dirty_fields, KeyOfIdent(id))
                  IN  /\ DirtySet(dirty) = {KeyOfIdent(id)}
                      /\ perstruct_get_changes(macro, Fields, [struct_value EXCEPT ![id] = value],
                                               <<KeyOfIdent(id)>>)
                            = [ok |-> TRUE, panic |-> FALSE, v |-> OneChange(id, value)]

C15_Step ==
    /\ (call.fn = "from_map" /\ FullyDecodable(call.map) /\ call'.fn = "perstruct_get_changes") =>
          ret' = ReturnedChanges(<<>>)
    /\ (/\ call.fn = "set"
        /\ DirtySet(before.dirty) = {}
        /\ to_string(FieldOfIdent(call.ident).ty, call.value).ok
        /\ call'.fn = "perstruct_get_changes") =>
          ret' = ReturnedChanges(OneChange(call.ident, call.value))

\* C15: after from_map on a map with a decodable string for every tracked
\* key the record has no pending change; after one set_f(v) on it,
\* perstruct_get_changes() returns the single entry (key of f, encoding of v).
C15_LoadModifyExport == []C15_Loaded /\ [][C15_Step]_vars

\* one field loaded from the map and left alone, the other set afterwards:
\* the export holds the entry of the field that was set and no other
C15_Witness ==
    /\ call.fn = "perstruct_get_changes"
    /\ item = "perstruct::Prefs"
    /\ struct_value["n"] = 3
    /\ ret = Ok(<< <<"map", "{}">> >>)
    /\ before.dirty = {"map"}

\* the literal and the function result a declaration names, None when it
\* names none
DeclaredLiteral(d) ==
    LET lits == {j \in DOMAIN d.attrs : d.attrs[j].meta = "NameValue" /\ d.attrs[j].path = "default"}
    IN  IF lits = {} THEN None ELSE Some(d.attrs[CHOOSE j \in lits : \A k \in lits : k <= j].lit.value)

DeclaredFunction(d) ==
    LET fns == {j \in DOMAIN d.attrs : d.attrs[j].meta = "NameValue" /\ d.attrs[j].path = "default_fn"}
    IN  IF fns = {} THEN None ELSE Some(CallFn(d.attrs[CHOOSE j \in fns : \A k \in fns : k <= j].lit.value))

TrackedDecls == {ItemStruct(item)[i] : i \in {j \in DOMAIN ItemStruct(item) : ItemStruct(item)[j].ident \in Idents}}

\* C16 as claimed: default() gives a field its literal default when it
\* declares one, also when it declares a default function as well; otherwise
\* the result of its default function; otherwise its type's default.
C16_LiteralFirst ==
    call.fn = "default" =>
        \A d \in TrackedDecls :
            struct_value[d.ident] =
                IF DeclaredLiteral(d) # None THEN DeclaredLiteral(d)[1]
                ELSE IF DeclaredFunction(d) # None THEN DeclaredFunction(d)[1]
                ELSE TypeDefault(d.ty)

\* C16 as amended: default() gives a field the result of its default
\* function when it declares one, also when it declares a literal as well;
\* otherwise its literal default; otherwise its type's default.
C16_FunctionFirst ==
    call.fn = "default" =>
        \A d \in TrackedDecls :
            struct_value[d.ident] =
                IF DeclaredFunction(d) # None THEN DeclaredFunction(d)[1]
                ELSE IF DeclaredLiteral(d) # None THEN DeclaredLiteral(d)[1]
                ELSE TypeDefault(d.ty)

\* default() on a struct with a field that declares a literal and a function
C16_Witness ==
    /\ call.fn = "default"
    /\ \E d \in TrackedDecls :
          /\ DeclaredLiteral(d) # None
          /\ DeclaredFunction(d) # None
          /\ DeclaredLiteral(d) # DeclaredFunction(d)
          /\ struct_value[d.ident] = DeclaredFunction(d)[1]
    /\ \E d \in TrackedDecls : DeclaredLiteral(d) = None /\ DeclaredFunction(d) = None

\* C17 as claimed: no record type has two tracked fields with one external
\* key; the macro rejects such a struct.
C17_DuplicateKeysRejected ==
    /\ \A i, j \in DOMAIN Fields : KeyOf(Fields[i]) = KeyOf(Fields[j]) => i = j
    /\ Len(perstruct_keys(Fields)) = Cardinality(Keys)

\* some dirty field's value does not encode
EncodeFails ==
    \E key \in dirty_fields :
        ~to_string(FieldOfKey(key).ty, struct_value[FieldOfKey(key).ident]).ok

\* the last call returned an error value and nothing else; the Vec that
\* perstruct_get_changes() of #[settings] returns has no error value
ErrorReturned == IF macro = "perstruct" THEN (~ret.ok /\ DOMAIN ret = {"ok", "e"}) ELSE FALSE

\* C18 as claimed: when a dirty field fails to encode,
\* perstruct_get_changes() does not panic, returns an error for the whole
\* export and leaves the fields and the dirty set as they were.
C18_EncodeFailureIsData ==
    (call.fn = "perstruct_get_changes" /\ EncodeFails) =>
        /\ ~panicked
        /\ ErrorReturned
        /\ struct_value = before.struct_value
        /\ perstruct_dirty_fields = before.dirty

\* C18, for the records #[perstruct] generates
C18_PerstructEncodeFailureIsData == macro = "perstruct" => C18_EncodeFailureIsData

\* the field of key holds the decoding of what the store holds under key
Reconciled(key) ==
    /\ key \in DOMAIN store
    /\ from_str(FieldOfKey(key).ty, store[key]) = Ok(struct_value[FieldOfKey(key).ident])

\* the field of key is at its default and the store holds nothing that
\* decodes under key
NeverStored(key) ==
    /\ struct_value[FieldOfKey(key).ident] = DefaultOfKey(key)
    /\ key \in DOMAIN store => ~from_str(FieldOfKey(key).ty, store[key]).ok

\* C19 as claimed: with a caller that loads the record from the store and
\* persists every exported entry before it acknowledges, without touching
\* the record in between, every tracked field whose key is not dirty holds
\* the decoding of what the store holds under its key; right after an
\* acknowledge every tracked field does.
C19_CleanMatchesStore ==
    /\ \A key \in Keys \ dirty_fields : Reconciled(key)
    /\ call.fn = "perstruct_saved" => \A key \in Keys : Reconciled(key)

\* C19 as amended: the above for a record of #[perstruct]; in a record of
\* #[settings], whose from_map marks no key, a clean field holds either the
\* decoding of what the store holds or, never loaded and never set, its
\* default while the store has nothing decodable under its key.  No entry
\* is exported for a key that is not dirty.
C19_CleanMatchesStoreOrUnloaded ==
    /\ macro = "perstruct" => C19_CleanMatchesStore
    /\ macro = "settings" => \A key \in Keys \ dirty_fields : Reconciled(key) \/ NeverStored(key)
    /\ exported # None =>
          \A i \in DOMAIN exported[1].changes : exported[1].changes[i][1] \in DirtySet(before.dirty)

\* a cycle that followed two mutations ended: both fields are clean and
\* the store, which held an undecodable string for one and nothing for the
\* other, holds their encodings
C19_Witness ==
    /\ call.fn = "perstruct_saved"
    /\ macro = "perstruct"
    /\ exported = None
    /\ struct_value["n"] = 1
    /\ store = [key \in {"n", "map"} |-> IF key = "n" THEN "1" ELSE "{}"]
    /\ DirtySet(before.dirty) = {"n", "map"}
    /\ \A key \in Keys : Reconciled(key)

\* the last call mutated the record while exported changes await their
\* acknowledge
MutatedSinceExport == exported # None /\ call.fn \in {"set", "update"}

C20_Step ==
    /\ (MutatedSinceExport /\ call'.fn = "perstruct_saved") =>
          /\ KeyOfIdent(call.ident) \notin DirtySet(perstruct_dirty_fields')
          /\ struct_value' = struct_value
          /\ store' = store
    /\ \A key \in Keys :
          (key \notin dirty_fields /\ key \in DirtySet(perstruct_dirty_fields')) =>
              (call'.fn \in {"set", "update"} /\ KeyOfIdent(call'.ident) = key)

\* C20: perstruct_saved() clears the key of a field that was set or updated
\* after perstruct_get_changes(), leaving the field's new value in place and
\* the store as it was written; the key stays out of the dirty set, and so
\* out of every later export, until the field is set or updated again.
C20_ExportNotAtomic ==
    /\ []((call.fn = "perstruct_get_changes" /\ Returned) =>
              \A i \in DOMAIN Changes : Changes[i][1] \in dirty_fields)
    /\ [][C20_Step]_vars

\* the lost update: after the acknowledge a field that was dirty is clean,
\* and the store holds the encoding of a value it no longer has
C20_Witness ==
    /\ call.fn = "perstruct_saved"
    /\ dirty_fields = {}
    /\ \E key \in DirtySet(before.dirty) :
          /\ key \in DOMAIN store
          /\ from_str(FieldOfKey(key).ty, store[key]).ok
          /\ from_str(FieldOfKey(key).ty, store[key]).v # struct_value[FieldOfKey(key).ident]

\* what the caller's closure m makes of the value old
ClosureResult(m, old, new) ==
    CASE m = "noop" -> new = old
      [] m = "incr" -> new = old + 1
      [] m = "push" -> Len(new) = Len(old) + 1 /\ new[Len(new)] = "()" /\ SubSeq(new, 1, Len(old)) = old
      [] m = "insert" -> new = old \cup {<<0, 0>>}

C21_State ==
    call.fn = "update" =>
        /\ ClosureResult(call.mutator, before.struct_value[call.ident], struct_value[call.ident])
        /\ KeyOfIdent(call.ident) \in dirty_fields

C21_Step ==
    call.fn = "update" =>
        /\ (call'.fn = "get" /\ call'.ident = call.ident) =>
              ClosureResult(call.mutator, before.struct_value[call.ident], ret')
        /\ call'.fn = "perstruct_dirty_fields" => KeyOfIdent(call.ident) \in DirtySet(ret')

\* C21: update_f(m) applies m to the field and marks the field's external
\* key dirty, also when m leaves the value as it was; the getter then returns
\* the mutated value and perstruct_dirty_fields() holds the key.
C21_UpdateMarksDirty == []C21_State /\ [][C21_Step]_vars

\* update_f with a closure that changes nothing, on a field whose key was
\* clean while another key was dirty
C21_Witness ==
    /\ call.fn = "update"
    /\ call.mutator = "noop"
    /\ struct_value = before.struct_value
    /\ KeyOfIdent(call.ident) \notin DirtySet(before.dirty)
    /\ DirtySet(before.dirty) # {}
    /\ KeyOfIdent(call.ident) \in dirty_fields

\* update_list(|list| list.push(())) as in the test
C21_PushWitness ==
    /\ call.fn = "update"
    /\ call.ident = "list"
    /\ call.mutator = "push"
    /\ struct_value["list"] = <<"()">>
    /\ "list" \in dirty_fields

\* the names that are no external key: those of aliased and of excluded
\* fields, and the map keys of no field
NotKeys ==
    (MapKeys(item) \cup {ItemStruct(item)[i].ident : i \in DOMAIN ItemStruct(item)})
        \ Range(DeclaredKeys(ItemStruct(item)))

\* C22: in every reachable record the dirty set holds external keys of
\* declared, non-excluded fields only: it is a subset of perstruct_keys() and
\* holds no aliased-away field name, no excluded field's name and no unknown
\* map key.
C22_DirtyWithinKeys ==
    /\ dirty_fields \subseteq Range(perstruct_keys(Fields))
    /\ dirty_fields \subseteq Range(DeclaredKeys(ItemStruct(item)))
    /\ dirty_fields \cap NotKeys = {}

\* set_a on a record in which every key was or becomes dirty: the alias is
\* in the dirty set, the field's name is no key
C22_Witness ==
    /\ call.fn = "set"
    /\ call.ident = "a"
    /\ macro = "perstruct"
    /\ dirty_fields = Keys
    /\ "a" \in NotKeys
    /\ struct_value["bar"] = 2

\* a record loaded from a map keyed by the excluded field's name
C22_ExcludedWitness ==
    /\ call.fn = "from_map"
    /\ "cache" \in DOMAIN call.map
    /\ "cache" \in NotKeys
    /\ dirty_fields = Keys

\* C23: for the map from_map was given, every order in which its entries
\* can be visited gives the field values and the dirty set the call gave,
\* and the same deserialization_errors and unknown_fields up to their order.
C23_OrderIndependent ==
    call.fn = "from_map" =>
        \A order \in Orders(DOMAIN call.map) :
            \E r \in {from_map(macro, Fields, SkippedFields, call.map, order)} :
                /\ r.struct_value = struct_value
                /\ r.dirty_fields = perstruct_dirty_fields
                /\ Range(r.deserialization_errors) = Range(ret.deserialization_errors)
                /\ Len(r.deserialization_errors) = Len(ret.deserialization_errors)
                /\ macro = "perstruct" =>
                      /\ Range(r.unknown_fields) = Range(ret.unknown_fields)
                      /\ Len(r.unknown_fields) = Len(ret.unknown_fields)

\* the two failing entries of the test's map, visited in the order the
\* test's sort undoes: the errors come back as foo, bar
C23_Witness ==
    /\ call.fn = "from_map"
    /\ macro = "perstruct"
    /\ call.order = <<"foo", "bar">>
    /\ Len(ret.deserialization_errors) = 2
    /\ ret.deserialization_errors[1][1] = "foo"
    /\ ret.deserialization_errors[2]
          = <<"bar", "invalid type: string \"a\", expected i32 at line 1 column 3">>

\* an unknown key visited before a key that loads
C23_UnknownFirstWitness ==
    /\ call.fn = "from_map"
    /\ macro = "perstruct"
    /\ Len(call.order) = 2
    /\ call.order[1] = "whatever"
    /\ Known(call.order[2]) /\ Decoded(call.map, call.order[2]).ok
    /\ call.order[2] \notin dirty_fields

\* set_f and update_f left every other field and every other key's dirty
\* status as the call found them; a getter left the whole record
C24_State ==
    /\ call.fn \in {"set", "update"} =>
          /\ DOMAIN struct_value = DOMAIN before.struct_value
          /\ \A id \in DOMAIN struct_value \ {call.ident} :
                struct_value[id] = before.struct_value[id]
          /\ \A key \in (Keys \cup NotKeys) \ {KeyOfIdent(call.ident)} :
                Occurrences(perstruct_dirty_fields, key) = Occurrences(before.dirty, key)
    /\ call.fn = "get" =>
          /\ struct_value = before.struct_value
          /\ perstruct_dirty_fields = before.dirty

C24_Step ==
    /\ call'.fn \in {"set", "update"} =>
          /\ \A id \in DOMAIN struct_value \ {call'.ident} : struct_value'[id] = struct_value[id]
          /\ \A key \in Keys \ {KeyOfIdent(call'.ident)} :
                (key \in DirtySet(perstruct_dirty_fields')) = (key \in dirty_fields)
    /\ call'.fn = "get" =>
          (struct_value' = struct_value /\ perstruct_dirty_fields' = perstruct_dirty_fields)

\* C24: set_f(v) and update_f(m) change the value of f and whether f's
\* external key is dirty, and nothing else of the record: every other field
\* keeps its value and every other key its dirty status; a getter changes
\* nothing.
C24_AccessorFrame == []C24_State /\ [][C24_Step]_vars

\* set_f changed f on a record with modified fields, where one other key
\* was dirty and another clean
C24_Witness ==
    /\ call.fn = "set"
    /\ struct_value[call.ident] # before.struct_value[call.ident]
    /\ \E key \in Keys \ {KeyOfIdent(call.ident)} : key \in dirty_fields
    /\ \E key \in Keys \ {KeyOfIdent(call.ident)} : key \notin dirty_fields
    /\ \E id \in Idents \ {call.ident} :
          struct_value[id] # default_values(Fields, SkippedFields)[id]

====
